---- MODULE Spec2Model ----
(***************************************************************************)
(* Model of c_lib/src/stdsage.c: the empty-tuple singleton, the startup    *)
(* sequencer init_csage(), the per-module entry init_csage_module() and    *)
(* the NTL error-callback bridge global_NTL_error_callback().              *)
(*                                                                         *)
(* The program is single threaded.  Control is modelled by a program       *)
(* counter `pc` (one label per C statement) and a stack of return labels.  *)
(* The host calls the entry points while pc = "idle"; NTL calls the        *)
(* registered error callback.                                              *)
(***************************************************************************)
EXTENDS Integers, Sequences, FiniteSets, TLC

\* ---- bounds ------------------------------------------------------------
MaxCalls == 4      \* top-level calls made by the host / NTL in one run
MaxLen == 2        \* longest error message NTL passes

Chars == {"a", "b"}
NULL == 0

RECURSIVE StringsUpTo(_)
StringsUpTo(n) ==
    IF n = 0 THEN {<<>>}
    ELSE LET shorter == StringsUpTo(n - 1)
         IN  shorter \cup {Append(s, c) : s \in shorter, c \in Chars}

Messages == StringsUpTo(MaxLen)

VARIABLES
    cygwin,               \* TRUE iff compiled with __CYGWIN32__ defined
    alive,                \* the process has not been terminated
    pc,                   \* statement about to execute
    stack,                \* return labels of the active calls
    entry,                \* top-level function being executed, or "none"
    calls,                \* number of top-level calls made so far
    ncalls,               \* static counter of _CALLED_ONLY_ONCE
    global_empty_tuple,   \* PyObject* global_empty_tuple (NULL = 0)
    heap,                 \* allocated tuples: object id -> length
    handler_installed,    \* setup_sage_signal_handler() has run
    ntl_callback,         \* callback registered with NTL, or "none"
    ntl_context,          \* context registered with NTL
    msg,                  \* the signal-handler message slot
    arg,                  \* parameter s of the running callback
    \* history variables (not program state)
    nAssign,              \* assignments to global_empty_tuple
    nInstall,             \* executions of setup_sage_signal_handler()
    nRegister,            \* executions of setup_NTL_error_callback()
    aborts,               \* abort() calls
    guardAborts,          \* abort() calls made by _CALLED_ONLY_ONCE
    csEntered,            \* init_csage() bodies entered
    csDone,               \* init_csage() bodies run to completion
    modDone,              \* init_csage_module() calls that have ended
    cbEntered,            \* callback invocations
    last_s,               \* argument of the latest callback invocation
    prev_s                \* argument of the invocation before that

progVars == <<cygwin, alive, pc, stack, entry, calls, ncalls,
              global_empty_tuple, heap, handler_installed, ntl_callback,
              ntl_context, msg, arg>>
histVars == <<nAssign, nInstall, nRegister, aborts, guardAborts, csEntered,
              csDone, modDone, cbEntered, last_s, prev_s>>
vars == <<progVars, histVars>>

\* What another component of the process can observe.
Obs == <<global_empty_tuple, heap, handler_installed, ntl_callback,
         ntl_context, msg, alive>>

\* State that init_csage_module() could touch.
Data == <<global_empty_tuple, heap, ncalls, handler_installed, ntl_callback,
          ntl_context, msg>>

Init ==
    /\ cygwin \in BOOLEAN
    /\ alive = TRUE
    /\ pc = "idle"
    /\ stack = <<>>
    /\ entry = "none"
    /\ calls = 0
    /\ ncalls = 0
    /\ global_empty_tuple = NULL
    /\ heap = <<>>
    /\ handler_installed = FALSE
    /\ ntl_callback = "none"
    /\ ntl_context = NULL
    /\ msg = <<>>
    /\ arg = <<>>
    /\ nAssign = 0
    /\ nInstall = 0
    /\ nRegister = 0
    /\ aborts = 0
    /\ guardAborts = 0
    /\ csEntered = 0
    /\ csDone = 0
    /\ modDone = 0
    /\ cbEntered = 0
    /\ last_s = <<>>
    /\ prev_s = <<>>

\* ---- control helpers ---------------------------------------------------

\* A top-level call has ended (by return or by abort).
EndOfCall ==
    /\ entry' = "none"
    /\ modDone' = modDone + (IF entry = "init_csage_module" THEN 1 ELSE 0)

\* return; : resume at the label on top of the stack.
Return ==
    /\ pc' = Head(stack)
    /\ stack' = Tail(stack)
    /\ IF Head(stack) = "idle"
       THEN EndOfCall
       ELSE UNCHANGED <<entry, modDone>>
    /\ UNCHANGED <<alive, aborts>>

\* abort(): raises SIGABRT.  Control never returns to the caller: either
\* the process terminates, or the host's recovery mechanism (or a test
\* harness) intercepts the termination and resumes at top level.
abort ==
    /\ aborts' = aborts + 1
    /\ stack' = <<>>
    /\ \E intercepted \in BOOLEAN :
          /\ alive' = intercepted
          /\ pc' = IF intercepted THEN "idle" ELSE "dead"
    /\ EndOfCall

\* PyTuple_New(size): a new tuple object, or NULL when allocation fails.
PyTuple_New(size, result) ==
    \/ /\ result = NULL
       /\ heap' = heap
    \/ /\ result = Len(heap) + 1
       /\ heap' = Append(heap, size)

\* set_sage_signal_handler_message(s): the new content of the slot.
set_sage_signal_handler_message(s) == s

\* setup_sage_signal_handler(): installs the host's recovery mechanism.
setup_sage_signal_handler ==
    /\ handler_installed' = TRUE
    /\ nInstall' = nInstall + 1

\* setup_NTL_error_callback(callback, context): registers NTL's handler.
setup_NTL_error_callback(callback, context) ==
    /\ ntl_callback' = callback
    /\ ntl_context' = context
    /\ nRegister' = nRegister + 1

\* ---- top-level calls ---------------------------------------------------

CanCall == alive /\ pc = "idle" /\ calls < MaxCalls

Enter(fn, label) ==
    /\ CanCall
    /\ calls' = calls + 1
    /\ entry' = fn
    /\ pc' = label
    /\ stack' = <<"idle">>

Call_init_global_empty_tuple ==
    /\ Enter("init_global_empty_tuple", "iget_guard")
    /\ UNCHANGED <<cygwin, alive, ncalls, global_empty_tuple, heap,
                   handler_installed, ntl_callback, ntl_context, msg, arg>>
    /\ UNCHANGED histVars

Call_init_csage ==
    /\ Enter("init_csage", "ic_a")
    /\ UNCHANGED <<cygwin, alive, ncalls, global_empty_tuple, heap,
                   handler_installed, ntl_callback, ntl_context, msg, arg>>
    /\ UNCHANGED histVars

Call_init_csage_module ==
    /\ Enter("init_csage_module", "icm")
    /\ UNCHANGED <<cygwin, alive, ncalls, global_empty_tuple, heap,
                   handler_installed, ntl_callback, ntl_context, msg, arg>>
    /\ UNCHANGED histVars

\* NTL calls Error(): it invokes the callback it was given, with message s.
NTL_Error ==
    /\ CanCall
    /\ ntl_callback = "global_NTL_error_callback"
    /\ \E s \in Messages :
          /\ arg' = s
          /\ last_s' = s
    /\ prev_s' = last_s
    /\ cbEntered' = cbEntered + 1
    /\ calls' = calls + 1
    /\ entry' = "global_NTL_error_callback"
    /\ pc' = "cb_set"
    /\ stack' = <<"ntl_resume">>
    /\ UNCHANGED <<cygwin, alive, ncalls, global_empty_tuple, heap,
                   handler_installed, ntl_callback, ntl_context, msg>>
    /\ UNCHANGED <<nAssign, nInstall, nRegister, aborts, guardAborts,
                   csEntered, csDone, modDone>>

\* ---- init_global_empty_tuple() -----------------------------------------

\* _CALLED_ONLY_ONCE;
CALLED_ONLY_ONCE ==
    /\ pc = "iget_guard"
    /\ IF ncalls > 0
       THEN /\ abort
            /\ guardAborts' = guardAborts + 1
            /\ UNCHANGED ncalls
       ELSE /\ ncalls' = ncalls + 1
            /\ pc' = "iget_assign"
            /\ UNCHANGED <<stack, entry, alive, aborts, guardAborts, modDone>>
    /\ UNCHANGED <<cygwin, calls, global_empty_tuple, heap, handler_installed,
                   ntl_callback, ntl_context, msg, arg>>
    /\ UNCHANGED <<nAssign, nInstall, nRegister, csEntered, csDone,
                   cbEntered, last_s, prev_s>>

\* global_empty_tuple = PyTuple_New(0);  }
AssignEmptyTuple ==
    /\ pc = "iget_assign"
    /\ \E r \in 0..(Len(heap) + 1) :
          /\ PyTuple_New(0, r)
          /\ global_empty_tuple' = r
    /\ nAssign' = nAssign + 1
    /\ Return
    /\ UNCHANGED <<cygwin, calls, ncalls, handler_installed, ntl_callback,
                   ntl_context, msg, arg>>
    /\ UNCHANGED <<nInstall, nRegister, guardAborts, csEntered, csDone,
                   cbEntered, last_s, prev_s>>

\* Variant: the assignment is made before the once-only guard is consulted.
init_global_empty_tuple_assign_first ==
    \/ /\ pc = "iget_guard"
       /\ \E r \in 0..(Len(heap) + 1) :
             /\ PyTuple_New(0, r)
             /\ global_empty_tuple' = r
       /\ nAssign' = nAssign + 1
       /\ pc' = "iget_assign"
       /\ UNCHANGED <<ncalls, stack, entry, alive, aborts, guardAborts,
                      modDone>>
       /\ UNCHANGED <<cygwin, calls, handler_installed, ntl_callback,
                      ntl_context, msg, arg>>
       /\ UNCHANGED <<nInstall, nRegister, csEntered, csDone, cbEntered,
                      last_s, prev_s>>
    \/ /\ pc = "iget_assign"
       /\ IF ncalls > 0
          THEN /\ abort
               /\ guardAborts' = guardAborts + 1
               /\ UNCHANGED ncalls
          ELSE /\ ncalls' = ncalls + 1
               /\ Return
               /\ UNCHANGED guardAborts
       /\ UNCHANGED <<global_empty_tuple, heap, nAssign>>
       /\ UNCHANGED <<cygwin, calls, handler_installed, ntl_callback,
                      ntl_context, msg, arg>>
       /\ UNCHANGED <<nInstall, nRegister, csEntered, csDone, cbEntered,
                      last_s, prev_s>>

init_global_empty_tuple ==
    \/ CALLED_ONLY_ONCE
    \/ AssignEmptyTuple

\* ---- init_csage() ------------------------------------------------------

\* Variant: construct the singleton inline, without the guarded initializer.
init_csage_a_unguarded ==
    /\ pc = "ic_a"
    /\ pc' = "iget_assign"
    /\ stack' = <<"ic_b">> \o stack
    /\ UNCHANGED <<cygwin, alive, entry, calls, ncalls, global_empty_tuple,
                   heap, handler_installed, ntl_callback, ntl_context, msg,
                   arg>>
    /\ csEntered' = csEntered + 1
    /\ UNCHANGED <<nAssign, nInstall, nRegister, aborts, guardAborts, csDone,
                   modDone, cbEntered, last_s, prev_s>>

\* init_global_empty_tuple();
init_csage_a ==
    /\ pc = "ic_a"
    /\ pc' = "iget_guard"
    /\ stack' = <<"ic_b">> \o stack
    /\ UNCHANGED <<cygwin, alive, entry, calls, ncalls, global_empty_tuple,
                   heap, handler_installed, ntl_callback, ntl_context, msg,
                   arg>>
    /\ csEntered' = csEntered + 1
    /\ UNCHANGED <<nAssign, nInstall, nRegister, aborts, guardAborts, csDone,
                   modDone, cbEntered, last_s, prev_s>>

\* setup_sage_signal_handler();
init_csage_b ==
    /\ pc = "ic_b"
    /\ setup_sage_signal_handler
    /\ pc' = "ic_c"
    /\ UNCHANGED <<cygwin, alive, stack, entry, calls, ncalls,
                   global_empty_tuple, heap, ntl_callback, ntl_context, msg,
                   arg>>
    /\ UNCHANGED <<nAssign, nRegister, aborts, guardAborts, csEntered,
                   csDone, modDone, cbEntered, last_s, prev_s>>

\* setup_NTL_error_callback(global_NTL_error_callback, NULL);  }
init_csage_c ==
    /\ pc = "ic_c"
    /\ setup_NTL_error_callback("global_NTL_error_callback", NULL)
    /\ csDone' = csDone + 1
    /\ Return
    /\ UNCHANGED <<cygwin, calls, ncalls, global_empty_tuple, heap,
                   handler_installed, msg, arg>>
    /\ UNCHANGED <<nAssign, nInstall, guardAborts, csEntered, cbEntered,
                   last_s, prev_s>>

\* Variant: the callback is registered before the signal handler is set up.
init_csage_register_first ==
    \/ init_csage_a
    \/ /\ pc = "ic_b"
       /\ setup_NTL_error_callback("global_NTL_error_callback", NULL)
       /\ pc' = "ic_c"
       /\ UNCHANGED <<cygwin, alive, stack, entry, calls, ncalls,
                      global_empty_tuple, heap, handler_installed, msg, arg>>
       /\ UNCHANGED <<nAssign, nInstall, aborts, guardAborts, csEntered,
                      csDone, modDone, cbEntered, last_s, prev_s>>
    \/ /\ pc = "ic_c"
       /\ setup_sage_signal_handler
       /\ csDone' = csDone + 1
       /\ Return
       /\ UNCHANGED <<cygwin, calls, ncalls, global_empty_tuple, heap,
                      ntl_callback, ntl_context, msg, arg>>
       /\ UNCHANGED <<nAssign, nRegister, guardAborts, csEntered, cbEntered,
                      last_s, prev_s>>

\* Variant: the signal handler is set up before the guarded first step.
init_csage_handler_first ==
    \/ /\ pc = "ic_a"
       /\ csEntered' = csEntered + 1
       /\ setup_sage_signal_handler
       /\ pc' = "ic_b"
       /\ UNCHANGED <<cygwin, alive, stack, entry, calls, ncalls,
                      global_empty_tuple, heap, ntl_callback, ntl_context,
                      msg, arg>>
       /\ UNCHANGED <<nAssign, nRegister, aborts, guardAborts, csDone,
                      modDone, cbEntered, last_s, prev_s>>
    \/ /\ pc = "ic_b"
       /\ pc' = "iget_guard"
       /\ stack' = <<"ic_c">> \o stack
       /\ UNCHANGED <<cygwin, alive, entry, calls, ncalls,
                      global_empty_tuple, heap, handler_installed,
                      ntl_callback, ntl_context, msg, arg>>
       /\ UNCHANGED histVars
    \/ init_csage_c

init_csage ==
    \/ init_csage_a
    \/ init_csage_b
    \/ init_csage_c

\* ---- init_csage_module() -----------------------------------------------

\* Variant: the platform test is inverted (#if !defined(__CYGWIN32__)).
init_csage_module_body_inverted ==
    /\ pc = "icm"
    /\ IF ~cygwin
       THEN /\ pc' = "ic_a"
            /\ stack' = <<"icm_end">> \o stack
            /\ UNCHANGED <<entry, modDone, alive, aborts>>
       ELSE Return
    /\ UNCHANGED <<cygwin, calls, ncalls, global_empty_tuple, heap,
                   handler_installed, ntl_callback, ntl_context, msg, arg>>
    /\ UNCHANGED <<nAssign, nInstall, nRegister, guardAborts, csEntered,
                   csDone, cbEntered, last_s, prev_s>>

\* #if defined(__CYGWIN32__)  init_csage();  #endif
init_csage_module_body ==
    /\ pc = "icm"
    /\ IF cygwin
       THEN /\ pc' = "ic_a"
            /\ stack' = <<"icm_end">> \o stack
            /\ UNCHANGED <<entry, modDone, alive, aborts>>
       ELSE Return
    /\ UNCHANGED <<cygwin, calls, ncalls, global_empty_tuple, heap,
                   handler_installed, ntl_callback, ntl_context, msg, arg>>
    /\ UNCHANGED <<nAssign, nInstall, nRegister, guardAborts, csEntered,
                   csDone, cbEntered, last_s, prev_s>>

\* }
init_csage_module_end ==
    /\ pc = "icm_end"
    /\ Return
    /\ UNCHANGED <<cygwin, calls, ncalls, global_empty_tuple, heap,
                   handler_installed, ntl_callback, ntl_context, msg, arg>>
    /\ UNCHANGED <<nAssign, nInstall, nRegister, guardAborts, csEntered,
                   csDone, cbEntered, last_s, prev_s>>

init_csage_module ==
    \/ init_csage_module_body
    \/ init_csage_module_end

\* ---- global_NTL_error_callback(s, context) ------------------------------

\* Variant: the message is appended to what the slot already holds.
callback_set_append ==
    /\ pc = "cb_set"
    /\ msg' = msg \o set_sage_signal_handler_message(arg)
    /\ pc' = "cb_abort"
    /\ UNCHANGED <<cygwin, alive, stack, entry, calls, ncalls,
                   global_empty_tuple, heap, handler_installed, ntl_callback,
                   ntl_context, arg>>
    /\ UNCHANGED histVars

\* Variant: the slot is written only while it is still empty.
callback_set_first_wins ==
    /\ pc = "cb_set"
    /\ msg' = IF msg = <<>> THEN set_sage_signal_handler_message(arg) ELSE msg
    /\ pc' = "cb_abort"
    /\ UNCHANGED <<cygwin, alive, stack, entry, calls, ncalls,
                   global_empty_tuple, heap, handler_installed, ntl_callback,
                   ntl_context, arg>>
    /\ UNCHANGED histVars

\* set_sage_signal_handler_message(s);
callback_set ==
    /\ pc = "cb_set"
    /\ msg' = set_sage_signal_handler_message(arg)
    /\ pc' = "cb_abort"
    /\ UNCHANGED <<cygwin, alive, stack, entry, calls, ncalls,
                   global_empty_tuple, heap, handler_installed, ntl_callback,
                   ntl_context, arg>>
    /\ UNCHANGED histVars

\* Variant: the callback returns to its caller instead of aborting.
callback_returns ==
    /\ pc = "cb_abort"
    /\ pc' = Head(stack)
    /\ stack' = Tail(stack)
    /\ UNCHANGED <<entry, modDone, alive, aborts>>
    /\ UNCHANGED <<cygwin, calls, ncalls, global_empty_tuple, heap,
                   handler_installed, ntl_callback, ntl_context, msg, arg>>
    /\ UNCHANGED <<nAssign, nInstall, nRegister, guardAborts, csEntered,
                   csDone, cbEntered, last_s, prev_s>>

\* abort();
callback_abort ==
    /\ pc = "cb_abort"
    /\ abort
    /\ UNCHANGED <<cygwin, calls, ncalls, global_empty_tuple, heap,
                   handler_installed, ntl_callback, ntl_context, msg, arg>>
    /\ UNCHANGED <<nAssign, nInstall, nRegister, guardAborts, csEntered,
                   csDone, cbEntered, last_s, prev_s>>

global_NTL_error_callback ==
    \/ callback_set
    \/ callback_abort

Next ==
    \/ Call_init_global_empty_tuple
    \/ Call_init_csage
    \/ Call_init_csage_module
    \/ NTL_Error
    \/ init_global_empty_tuple
    \/ init_csage
    \/ init_csage_module
    \/ global_NTL_error_callback

Spec == Init /\ [][Next]_vars

TypeOK ==
    /\ cygwin \in BOOLEAN
    /\ alive \in BOOLEAN
    /\ pc \in {"idle", "dead", "iget_guard", "iget_assign", "ic_a", "ic_b",
               "ic_c", "icm", "icm_end", "cb_set", "cb_abort"}
    /\ calls \in 0..MaxCalls
    /\ msg \in Messages

InCallback == entry = "global_NTL_error_callback"
InModuleCall == entry = "init_csage_module"
IsEmptyTuple(p) == p \in 1..Len(heap) /\ heap[p] = 0

\* ---- C1 ----------------------------------------------------------------
\* C1: every invocation of global_NTL_error_callback(s, context) first makes
\* the message slot hold exactly s (whatever it held before) and then calls
\* abort(); neither step can be skipped.
C1_CallbackStoresThenAborts ==
    [][ /\ (pc = "cb_set" => msg' = arg /\ pc' = "cb_abort" /\ arg' = arg)
        /\ (pc = "cb_abort" =>
               /\ msg = arg
               /\ msg' = arg
               /\ aborts' = aborts + 1)
        /\ (InCallback' => pc' \in {"cb_set", "cb_abort"}) ]_vars

\* A callback that overwrote a different, non-empty message has aborted.
C1_Witness ==
    /\ cbEntered >= 2
    /\ ~InCallback
    /\ aborts >= 2
    /\ prev_s # <<>>
    /\ Len(last_s) = MaxLen
    /\ prev_s # last_s
    /\ msg = last_s

\* ---- C2 ----------------------------------------------------------------
\* C2: when init_global_empty_tuple() is entered after it has already run,
\* the once-only guard aborts before the assignment is reached: no second
\* tuple is allocated and global_empty_tuple is not replaced.
C2_SecondInitFailsFast ==
    [][ /\ (pc = "iget_guard" /\ ncalls > 0 =>
               /\ aborts' = aborts + 1
               /\ pc' \in {"idle", "dead"}
               /\ global_empty_tuple' = global_empty_tuple
               /\ heap' = heap
               /\ nAssign' = nAssign)
        /\ (nAssign >= 1 => heap' = heap /\ nAssign' = nAssign) ]_vars

\* A second call was made, was stopped by the guard and the tuple is intact.
C2_Witness ==
    /\ calls = 2
    /\ guardAborts = 1
    /\ nAssign = 1
    /\ IsEmptyTuple(global_empty_tuple)
    /\ nInstall = 0
    /\ pc = "idle"

\* ---- C3 ----------------------------------------------------------------
\* C3: after init_csage() has completed, global_empty_tuple is non-null and
\* refers to a tuple of length zero, also when PyTuple_New(0) can fail.
C3_NonNullAfterInit ==
    csDone > 0 => global_empty_tuple # NULL /\ IsEmptyTuple(global_empty_tuple)

\* ---- C4 ----------------------------------------------------------------
\* C4: with __CYGWIN32__ defined, every call of init_csage_module() after the
\* first one leaves the observable state as it was (the singleton keeps its
\* instance and nothing else an observer can see changes).
C4_ModuleInitIdempotent ==
    [][ cygwin /\ InModuleCall /\ modDone >= 1 => Obs' = Obs ]_vars

\* ---- C5 ----------------------------------------------------------------
\* C5: without __CYGWIN32__, a call of init_csage_module() changes nothing:
\* not the singleton, the guard, the signal handler, the registered callback
\* or the message slot, and it does not terminate the process.
C5_ModuleInitNoOp ==
    [][ ~cygwin /\ (InModuleCall \/ InModuleCall') =>
           /\ Data' = Data
           /\ alive' = alive
           /\ aborts' = aborts
           /\ nInstall' = nInstall
           /\ nRegister' = nRegister
           /\ nAssign' = nAssign ]_vars

\* Two module calls have ended on a non-Cygwin build that is initialized.
C5_Witness ==
    /\ ~cygwin
    /\ modDone >= 2
    /\ nRegister = 1
    /\ pc = "idle"

\* ---- C6 ----------------------------------------------------------------
\* C6: after the bridge has been invoked with m1 and then with m2, the slot
\* holds m2 and nothing else.
C6_LastWriteWins ==
    cbEntered >= 2 /\ ~InCallback => msg = last_s /\ Len(msg) = Len(last_s)

\* Two intercepted invocations with different non-empty messages.
C6_Witness ==
    /\ cbEntered = 2
    /\ pc = "idle"
    /\ alive
    /\ prev_s # <<>>
    /\ last_s # <<>>
    /\ prev_s # last_s
    /\ msg = last_s

\* ---- C7 ----------------------------------------------------------------
\* C7: the callback never returns to NTL; its abort() step ends the call
\* without executing anything further, and the only state the callback
\* changes before that is the message slot.
C7_CallbackNeverReturns ==
    [][ /\ (InCallback =>
               /\ pc' # "ntl_resume"
               /\ UNCHANGED <<global_empty_tuple, heap, ncalls,
                              handler_installed, ntl_callback, ntl_context>>)
        /\ (pc = "cb_abort" =>
               /\ stack' = <<>>
               /\ pc' \in {"idle", "dead"}
               /\ ~InCallback'
               /\ msg' = msg) ]_vars

\* The callback was entered and has ended through its own abort().
C7_Witness ==
    /\ cbEntered >= 1
    /\ ~InCallback
    /\ aborts >= 1
    /\ guardAborts = 0
    /\ msg # <<>>

\* ---- C8 ----------------------------------------------------------------
\* C8: global_empty_tuple is assigned at most once and no tuple is allocated
\* twice; after the first assignment its value never changes.
C8_SingletonWrittenOnce ==
    [][ /\ nAssign' <= 1
        /\ Len(heap') <= 1
        /\ (nAssign >= 1 => global_empty_tuple' = global_empty_tuple) ]_vars

\* The singleton survived a repeated initialization, a module call and an
\* invocation of the bridge.
C8_Witness ==
    /\ nAssign = 1
    /\ IsEmptyTuple(global_empty_tuple)
    /\ guardAborts >= 1
    /\ modDone >= 1
    /\ cbEntered >= 1
    /\ ~InCallback

C10_StartupStepsAtMostOnce ==
    /\ nAssign <= 1
    /\ nInstall <= 1
    /\ nRegister <= 1
    /\ csDone <= 1
    /\ (pc \in {"ic_b", "ic_c"} => csDone = 0)
    /\ (csEntered >= 2 /\ pc = "idle" => guardAborts >= 1)

\* init_csage() completed once and was entered twice more.
C10_Witness ==
    /\ csEntered = 3
    /\ csDone = 1
    /\ nInstall = 1
    /\ nRegister = 1
    /\ guardAborts >= 2
    /\ calls = 3
====
